---- MODULE Spec2Model ----
(***************************************************************************)
(* Tank-Firmware-V2, RobotController: the motion ramp engine               *)
(* (MotionMotors), its two actuators (Motor) and the change-aware          *)
(* telemetry emitter (Telemetry), as a state machine driven by the         *)
(* millisecond clock millis().                                             *)
(***************************************************************************)
EXTENDS Integers, Sequences, FiniteSets, TLC

\* ------------------------------------------------------------------ bounds
\* Width of the modelled millisecond counter (unsigned long, scaled down).
ClockBits == 12
\* The engine runs are followed from boot until this time.
MaxTime == 220
\* The input adapter issues its commands until this time.
MaxSetupTime == 20
\* ... and no longer than this beyond the last recorded step time.
MaxIdle == 20
\* The telemetry runs are followed from boot until this time.
MaxTelTime == 2000
\* At most this many records are followed on the serial sink.
MaxRecords == 3

\* Calibrations of the calibration runs are the ratios v / CalDen.
CalDen == 20
\* The calibration runs end at this clock value.
MaxCalTime == 1000

\* In the wraparound runs the clock stops MaxWrapElapsed ms after the last
\* telemetry record.
MaxWrapElapsed == 1010

\* In the loop runs the clock comes round every LoopTurns iterations.
LoopTurns == 16

\* The controller runs are followed from boot until this time.
MaxCtlTime == 800

\* In the timer runs the clock stops TimerSlack ms after the counter has
\* come round once since the timer was started.
TimerSlack == 512

ClockMod == 2 ^ ClockBits

\* ------------------------------------------------- constants of the source
SMOOTH_ACCEL_STEPS == 10
SMOOTH_ACCEL_DELAY == 20
DEFAULT_SMOOTH_ENABLED == TRUE
DEFAULT_TELEMETRY_INTERVAL == 1000

DEBOUNCE_DELAY == 300
JOYSTICK_DEAD_ZONE == 5000
DEBUG_NONE == 0
DEBUG_BASIC == 1
DEBUG_DETAILED == 2
DEBUG_VERBOSE == 3
\* The largest joystick reading handleMovement maps to a power.
AXIS_MAX == 32767

MOTOR_FORWARD == "FORWARD"
MOTOR_BACKWARD == "BACKWARD"
MOTOR_STOPPED == "STOPPED"

Sides == {"left", "right"}
DriveDirections == {MOTOR_FORWARD, MOTOR_BACKWARD}

\* ------------------------------------------------------ inputs of the runs
\* Powers the input adapter commands (uint8_t).
Powers == {55, 200}
\* The right channel's commands in the engine runs.
RightPowers == {200}
RightSmooth == {FALSE}
\* Calibrations the engine is constructed with, as ratios <<n, d>>.
InitCalibrations == {<<1, 1>>}
\* Clock advances between two calls of the surrounding loop.
TickSteps == {10, 20}
\* Telemetry intervals and clock advances of the telemetry runs.
Intervals == {500, 1000}
TelTickSteps == {250, 500}
\* Arguments of Telemetry::update in the telemetry runs (the rest is fixed).
UpdatePowers == {0, 100}

\* Numerators of the calibrations given to the constructor and the setters
\* in the calibration runs (below 0 and above 1 included), and the powers.
CalInputs == {0 - 1, 10, 13, CalDen + 1}
RightCalInputs == {0 - 1, CalDen + 1}
CalPowers == {0, 180, 201}

\* Powers of the calls made on one actuator alone.
MotorPowers == {0, 55, 200, 255}

\* Loop runs: the powers of the smooth commands and the clock advance of one
\* iteration of the surrounding loop (a slow loop: the counter comes round
\* every LoopTurns iterations, and every poll of a ramp is an eligible one).
LoopPowers == {100, 200}
LoopTickSteps == {ClockMod \div LoopTurns}

\* Controller runs: the clock advances between two processController calls
\* (the gamepads read are listed with the state machine).
CtlTickSteps == {100, 301}

\* Timer runs: the delays given to the constructor and to start() (0: the
\* default argument) and the clock advances between two calls.
TimerDelays == {0, 100, 300}
TimerTickSteps == {ClockMod \div 32, ClockMod \div 2}

\* Wraparound runs: the times the board has been up before the run's first
\* send, the clock advances, and the power of the one ramp.
WrapIdles == {ClockMod - 1000, ClockMod - 20, ClockMod - 10}
WrapTickSteps == {10, 490}
WrapPower == 200

\* --------------------------------------------------------------- variables
VARIABLES
    mm,        \* the MotionMotors object (with its two Motor members)
    tel,       \* the statics of class Telemetry
    ut,        \* the static locals of MotionMotors::updateTelemetry
    serial,    \* what Telemetry::send printed: count of records and the last
    now,       \* millis()
    lastCmd,   \* history: the last control operation and the state it met
               \* (in the wraparound runs: the real time since the timestamps)
               \* (in the controller runs: the statics of ControllerHandler
               \* and Logger, the debug flags, the stored preferences, and
               \* the button actions processed)
               \* (in the timer runs: the NonBlockingDelay object, the last
               \* call that armed it and the real time since that call)
    duePoll    \* history: since the stop() in lastCmd, updateAcceleration was
               \* called at a time when a step was due by the clock

vars == <<mm, tel, ut, serial, now, lastCmd, duePoll>>

\* ---------------------------------------------------- unsigned arithmetic
\* (mutant) a difference that ignores the counter's width.
USubNoWrap(a, b) == a - b

\* a - b on unsigned long.
USub(a, b) == (a - b + ClockMod) % ClockMod

U8(x) == x % 256

\* ------------------------------------------------- single precision floats
\* A float is [m, e]: the value m / 2^e, with 2^23 <= |m| < 2^24, or m = 0.
F32Zero == [m |-> 0, e |-> 0]
F32One == [m |-> 2 ^ 23, e |-> 23]

RECURSIVE F32Scale(_, _, _)
F32Scale(n, d, e) == IF n >= (2 ^ 23) * d THEN e ELSE F32Scale(2 * n, d, e + 1)

\* (float)n / d for integers 0 <= n, 0 < d, n/d < 2: round to nearest, ties to even.
F32Div(n, d) ==
    IF n = 0 THEN F32Zero
    ELSE LET e == F32Scale(n, d, 0)
             num == n * (2 ^ e)
             q == num \div d
             r == num % d
             up == (2 * r > d) \/ (2 * r = d /\ q % 2 = 1)
             m == IF up THEN q + 1 ELSE q
         IN IF m = 2 ^ 24 THEN [m |-> 2 ^ 23, e |-> e - 1] ELSE [m |-> m, e |-> e]

\* A negative float of the same magnitude.
F32Neg(f) == [m |-> 0 - f.m, e |-> f.e]

\* f < g, for floats of which at most one is negative.
F32Less(f, g) ==
    IF f.m < 0 \/ g.m < 0 THEN f.m < 0 /\ g.m >= 0
    ELSE IF f.m = 0 THEN g.m > 0
    ELSE IF g.m = 0 THEN FALSE
    ELSE IF f.e = g.e THEN f.m < g.m
    ELSE f.e > g.e

BitLen(p) == CHOOSE b \in 0..8 : 2 ^ b > p /\ (b = 0 \/ 2 ^ (b - 1) <= p)

\* uint8_t x = p * f, for a uint8_t p and a float 0 <= f: the float product,
\* rounded to 24 significant bits (ties to even), then truncated.
F32MulToU8(p, f) ==
    IF p = 0 \/ f.m = 0 THEN 0
    ELSE LET hi == f.m \div 4096
             lo == f.m % 4096
             A == p * hi
             B == p * lo
             \* the exact product is X = A * 4096 + B, below 2^32
             d0 == BitLen(p) - 1
             Q0 == A * (2 ^ (12 - d0)) + (B \div (2 ^ d0))
             d == IF Q0 < 2 ^ 24 THEN d0 ELSE d0 + 1
             Q == A * (2 ^ (12 - d)) + (B \div (2 ^ d))
             R == B % (2 ^ d)
             half == IF d = 0 THEN 0 ELSE 2 ^ (d - 1)
             up == d > 0 /\ (R > half \/ (R = half /\ Q % 2 = 1))
             Qr == IF up THEN Q + 1 ELSE Q
             sh == f.e - d
         IN U8(IF sh >= 0 THEN Qr \div (2 ^ sh) ELSE Qr * (2 ^ (0 - sh)))

\* The float v / CalDen, for -CalDen < v < 2 * CalDen.
CalFloat(v) ==
    IF v < 0 THEN F32Neg(F32Div(0 - v, CalDen)) ELSE F32Div(v, CalDen)

\* abs()
Abs(x) == IF x < 0 THEN 0 - x ELSE x

\* The number of significant bits of 0 <= p < 2^30.
BitLen30(p) == CHOOSE b \in 0..30 : 2 ^ b > p /\ (b = 0 \/ 2 ^ (b - 1) <= p)

\* The magnitude mag < 2^30 at scale e + 5 and of L significant bits,
\* rounded to 24 bits (round to nearest, ties to even), with the sign of S.
F32AddRound(S, mag, L, e) ==
    LET k == L - 24
        q == mag \div (2 ^ k)
        r == mag % (2 ^ k)
        up == r > 2 ^ (k - 1) \/ (r = 2 ^ (k - 1) /\ q % 2 = 1)
        m == IF L <= 24 THEN mag * (2 ^ (24 - L))
             ELSE IF up THEN q + 1 ELSE q
        carry == m = 2 ^ 24
        nm == IF carry THEN 2 ^ 23 ELSE m
        ne == IF carry THEN e + 5 - k - 1 ELSE e + 5 - k
    IN IF S = 0 THEN F32Zero
       ELSE IF S < 0 THEN [m |-> 0 - nm, e |-> ne] ELSE [m |-> nm, e |-> ne]

\* The sum S of x and y at x's scale with five more bits, Y being y at that
\* scale (four guard bits and a sticky bit), then rounded.
F32AddSum(S, e) ==
    F32AddRound(S, Abs(S), BitLen30(Abs(S)), e)

\* x + y for x the operand of the larger magnitude (x.e <= y.e): y is
\* brought to x's scale with four guard bits and a sticky bit.
F32AddAligned(x, y, diff, absY) ==
    LET kept == IF diff > 27 THEN 0 ELSE (absY * 16) \div (2 ^ diff)
        sticky == IF diff > 27 THEN 1
                  ELSE IF (absY * 16) % (2 ^ diff) # 0 THEN 1 ELSE 0
        Y == 2 * kept + sticky
    IN F32AddSum(x.m * 32 + (IF y.m < 0 THEN 0 - Y ELSE Y), x.e)

\* f + g in single precision (round to nearest, ties to even).
F32Add(f, g) ==
    IF f.m = 0 THEN g
    ELSE IF g.m = 0 THEN f
    ELSE IF f.e <= g.e THEN F32AddAligned(f, g, g.e - f.e, Abs(g.m))
    ELSE F32AddAligned(g, f, f.e - g.e, Abs(f.m))

\* (mutant) a calibration stored as given.
NoConstrain(f) == f

\* constrain(x, 0.0, 1.0)
Constrain01(f) == IF F32Less(f, F32Zero) THEN F32Zero
                  ELSE IF F32Less(F32One, f) THEN F32One ELSE f

\* CALIBRATION_STEP, the float 0.05f.
CALIBRATION_STEP == F32Div(1, 20)

\* ------------------------------------------------------------------- Motor
\* forwardOut / backwardOut: the magnitudes last written to the two pins.
Motor(calibration) ==
    [direction |-> MOTOR_STOPPED, power |-> 0,
     calibration |-> Constrain01(calibration),
     lastReportedDirection |-> MOTOR_STOPPED, lastReportedPower |-> 0,
     forwardOut |-> 0, backwardOut |-> 0]

Motor_applyPower(m, forwardPower, backwardPower) ==
    [m EXCEPT !.forwardOut = forwardPower, !.backwardOut = backwardPower]

\* (mutant) a report test that looks at the direction only.
ReportDueDirectionOnly(m) == m.lastReportedDirection # m.direction

\* The test under which forward() and backward() call Logger::logMotor.
ReportDue(m) ==
    m.lastReportedDirection # m.direction \/ m.lastReportedPower # m.power

\* The test under which stop() calls Logger::logMotor.
StopReportDue(m) == m.lastReportedDirection # m.direction

\* The "log if state changed" tail of forward() and backward().
Motor_report(m) ==
    IF ReportDue(m)
    THEN [m EXCEPT !.lastReportedDirection = m.direction,
                   !.lastReportedPower = m.power]
    ELSE m

Motor_forward(m, power) ==
    LET calibratedPower == F32MulToU8(power, m.calibration)
        m1 == [m EXCEPT !.direction = MOTOR_FORWARD, !.power = power]
    IN Motor_report(Motor_applyPower(m1, calibratedPower, 0))

Motor_backward(m, power) ==
    LET calibratedPower == F32MulToU8(power, m.calibration)
        m1 == [m EXCEPT !.direction = MOTOR_BACKWARD, !.power = power]
    IN Motor_report(Motor_applyPower(m1, 0, calibratedPower))

Motor_stop(m) ==
    LET m1 == [m EXCEPT !.direction = MOTOR_STOPPED, !.power = 0]
        m2 == Motor_applyPower(m1, 0, 0)
    IN IF StopReportDue(m2)
       THEN [m2 EXCEPT !.lastReportedDirection = m2.direction,
                       !.lastReportedPower = m2.power]
       ELSE m2

Motor_begin(m) == Motor_stop(m)

\* A call c = [op, power] of forward(power), backward(power) or stop().
Motor_call(m, c) ==
    IF c.op = "forward" THEN Motor_forward(m, c.power)
    ELSE IF c.op = "backward" THEN Motor_backward(m, c.power)
    ELSE Motor_stop(m)

\* The (direction, power) the call sets.
CallSets(c) ==
    IF c.op = "forward" THEN <<MOTOR_FORWARD, c.power>>
    ELSE IF c.op = "backward" THEN <<MOTOR_BACKWARD, c.power>>
    ELSE <<MOTOR_STOPPED, 0>>

\* The call hands an event to Logger::logMotor.
Motor_logs(m, c) ==
    LET m1 == [m EXCEPT !.direction = CallSets(c)[1], !.power = CallSets(c)[2]]
    IN IF c.op = "stop" THEN StopReportDue(m1) ELSE ReportDue(m1)

\* The actuator inside the call, between the two analogWrite calls of
\* applyPower: direction and power are set, the forward pin is written, the
\* backward pin and the reported state are still the old ones.
ForwardPinWritten(m, c) ==
    [m EXCEPT !.direction = CallSets(c)[1], !.power = CallSets(c)[2],
              !.forwardOut = Motor_call(m, c).forwardOut]

Motor_setCalibration(m, calibration) ==
    [m EXCEPT !.calibration = Constrain01(calibration)]

\* --------------------------------------------------------------- Telemetry
NoRecord == [none |-> TRUE]

Telemetry_begin(interval, t) ==
    [data |-> [leftMotorPower |-> 0, rightMotorPower |-> 0,
               leftMotorForward |-> TRUE, rightMotorForward |-> TRUE,
               leftCalibration |-> F32One, rightCalibration |-> F32One,
               isAccelerating |-> FALSE, smoothEnabled |-> TRUE,
               timestamp |-> 0],
     lastSendTime |-> t, interval |-> interval,
     enabled |-> TRUE, dataChanged |-> FALSE]

\* The mirrored fields of a snapshot (all but the capture timestamp).
Mirrored(data) ==
    [leftMotorPower |-> data.leftMotorPower,
     rightMotorPower |-> data.rightMotorPower,
     leftMotorForward |-> data.leftMotorForward,
     rightMotorForward |-> data.rightMotorForward,
     leftCalibration |-> data.leftCalibration,
     rightCalibration |-> data.rightCalibration,
     isAccelerating |-> data.isAccelerating,
     smoothEnabled |-> data.smoothEnabled]

\* (mutant) update() that stores and stamps whatever it is given.
Telemetry_updateAlways(T, f, t) ==
    [T EXCEPT !.data = [leftMotorPower |-> f.leftMotorPower,
                        rightMotorPower |-> f.rightMotorPower,
                        leftMotorForward |-> f.leftMotorForward,
                        rightMotorForward |-> f.rightMotorForward,
                        leftCalibration |-> f.leftCalibration,
                        rightCalibration |-> f.rightCalibration,
                        isAccelerating |-> f.isAccelerating,
                        smoothEnabled |-> f.smoothEnabled,
                        timestamp |-> t],
              !.dataChanged = TRUE]

\* f: the eight arguments of update(), as a record.
Telemetry_update(T, f, t) ==
    IF \/ T.data.leftMotorPower # f.leftMotorPower
       \/ T.data.rightMotorPower # f.rightMotorPower
       \/ T.data.leftMotorForward # f.leftMotorForward
       \/ T.data.rightMotorForward # f.rightMotorForward
       \/ T.data.leftCalibration # f.leftCalibration
       \/ T.data.rightCalibration # f.rightCalibration
       \/ T.data.isAccelerating # f.isAccelerating
       \/ T.data.smoothEnabled # f.smoothEnabled
    THEN [T EXCEPT !.data = [leftMotorPower |-> f.leftMotorPower,
                             rightMotorPower |-> f.rightMotorPower,
                             leftMotorForward |-> f.leftMotorForward,
                             rightMotorForward |-> f.rightMotorForward,
                             leftCalibration |-> f.leftCalibration,
                             rightCalibration |-> f.rightCalibration,
                             isAccelerating |-> f.isAccelerating,
                             smoothEnabled |-> f.smoothEnabled,
                             timestamp |-> t],
                   !.dataChanged = TRUE]
    ELSE T

\* (mutant) a gate that does not look at the clock.
SendGateNoClock(T, t) == T.enabled /\ T.dataChanged

\* (mutant) send() that leaves the dirty flag set.
Telemetry_sendKeepDirty(T, out, t) ==
    IF T.enabled /\ USub(t, T.lastSendTime) >= T.interval /\ T.dataChanged
    THEN [tel |-> [T EXCEPT !.lastSendTime = t],
          serial |-> [count |-> out.count + 1, last |-> T.data]]
    ELSE [tel |-> T, serial |-> out]

\* currentTime - _lastSendTime >= _interval
SendDue(T, t) == USub(t, T.lastSendTime) >= T.interval

\* The condition under which send() prints a record.
SendGate(T, t) == T.enabled /\ SendDue(T, t) /\ T.dataChanged

\* send() on the pair <<statics, serial sink>>.
Telemetry_send(T, out, t) ==
    IF SendGate(T, t)
    THEN [tel |-> [T EXCEPT !.lastSendTime = t, !.dataChanged = FALSE],
          serial |-> [count |-> out.count + 1, last |-> T.data]]
    ELSE [tel |-> T, serial |-> out]

\* (mutant) setInterval that also drops a pending snapshot.
Telemetry_setIntervalDropping(T, interval) ==
    [T EXCEPT !.interval = interval, !.dataChanged = FALSE]

Telemetry_setInterval(T, interval) == [T EXCEPT !.interval = interval]

\* ------------------------------------------------------------ MotionMotors
\* The operations act on S = [mm, tel, ut] at clock value t.
MotionMotors(leftCalibration, rightCalibration) ==
    [leftMotor |-> Motor(leftCalibration),
     rightMotor |-> Motor(rightCalibration),
     smoothEnabled |-> DEFAULT_SMOOTH_ENABLED,
     lastAccelUpdateTime |-> 0,
     currentAccelStep |-> 0,
     totalAccelSteps |-> 0,
     isAccelerating |-> FALSE,
     leftTargetDirection |-> MOTOR_STOPPED,
     rightTargetDirection |-> MOTOR_STOPPED,
     leftTargetPower |-> 0,
     rightTargetPower |-> 0]

\* The static locals of updateTelemetry, as first initialized.
UpdateTelemetryStatics ==
    [lastLeftPower |-> 0, lastRightPower |-> 0,
     lastLeftDir |-> MOTOR_STOPPED, lastRightDir |-> MOTOR_STOPPED,
     lastLeftCal |-> F32Zero, lastRightCal |-> F32Zero,
     lastAccel |-> FALSE, lastSmooth |-> TRUE]

GetMotor(S, side) == IF side = "left" THEN S.mm.leftMotor ELSE S.mm.rightMotor

SetMotor(S, side, m) ==
    IF side = "left" THEN [S EXCEPT !.mm.leftMotor = m]
    ELSE [S EXCEPT !.mm.rightMotor = m]

updateTelemetry(S, t) ==
    LET leftPower == S.mm.leftMotor.power
        rightPower == S.mm.rightMotor.power
        leftDir == S.mm.leftMotor.direction
        rightDir == S.mm.rightMotor.direction
        leftCal == S.mm.leftMotor.calibration
        rightCal == S.mm.rightMotor.calibration
    IN IF \/ leftPower # S.ut.lastLeftPower \/ rightPower # S.ut.lastRightPower
          \/ leftDir # S.ut.lastLeftDir \/ rightDir # S.ut.lastRightDir
          \/ leftCal # S.ut.lastLeftCal \/ rightCal # S.ut.lastRightCal
          \/ S.mm.isAccelerating # S.ut.lastAccel
          \/ S.mm.smoothEnabled # S.ut.lastSmooth
       THEN [S EXCEPT
               !.tel = Telemetry_update(S.tel,
                          [leftMotorPower |-> leftPower,
                           rightMotorPower |-> rightPower,
                           leftMotorForward |-> (leftDir = MOTOR_FORWARD),
                           rightMotorForward |-> (rightDir = MOTOR_FORWARD),
                           leftCalibration |-> leftCal,
                           rightCalibration |-> rightCal,
                           isAccelerating |-> S.mm.isAccelerating,
                           smoothEnabled |-> S.mm.smoothEnabled], t),
               !.ut = [lastLeftPower |-> leftPower, lastRightPower |-> rightPower,
                       lastLeftDir |-> leftDir, lastRightDir |-> rightDir,
                       lastLeftCal |-> leftCal, lastRightCal |-> rightCal,
                       lastAccel |-> S.mm.isAccelerating,
                       lastSmooth |-> S.mm.smoothEnabled]]
       ELSE S

MotionMotors_begin(S, t) ==
    LET S1 == [S EXCEPT !.mm.leftMotor = Motor_begin(S.mm.leftMotor),
                        !.mm.rightMotor = Motor_begin(S.mm.rightMotor),
                        !.tel = Telemetry_begin(DEFAULT_TELEMETRY_INTERVAL, t)]
    IN updateTelemetry(S1, t)

\* The target assignment shared by the three smooth set-ups: the addressed
\* channel gets the target, the other channel's target is cleared.
SetTargets(S, side, direction, targetPower) ==
    IF side = "left"
    THEN [S EXCEPT !.mm.leftTargetDirection = direction,
                   !.mm.leftTargetPower = targetPower,
                   !.mm.rightTargetDirection = MOTOR_STOPPED,
                   !.mm.rightTargetPower = 0]
    ELSE [S EXCEPT !.mm.leftTargetDirection = MOTOR_STOPPED,
                   !.mm.leftTargetPower = 0,
                   !.mm.rightTargetDirection = direction,
                   !.mm.rightTargetPower = targetPower]

\* (mutant) a set-up that keeps the step counter of the cycle before.
EnterRampingKeepStep(S, t) ==
    updateTelemetry([S EXCEPT !.mm.totalAccelSteps = SMOOTH_ACCEL_STEPS,
                              !.mm.lastAccelUpdateTime = t,
                              !.mm.isAccelerating = TRUE], t)

\* The common tail of the three smooth set-ups (params.steps is the default).
EnterRamping(S, t) ==
    updateTelemetry([S EXCEPT !.mm.currentAccelStep = 0,
                              !.mm.totalAccelSteps = SMOOTH_ACCEL_STEPS,
                              !.mm.lastAccelUpdateTime = t,
                              !.mm.isAccelerating = TRUE], t)

smoothAccelerate(S, side, direction, targetPower, t) ==
    IF ~S.mm.smoothEnabled
    THEN updateTelemetry(
             IF direction = MOTOR_FORWARD
             THEN SetMotor(S, side, Motor_forward(GetMotor(S, side), targetPower))
             ELSE IF direction = MOTOR_BACKWARD
             THEN SetMotor(S, side, Motor_backward(GetMotor(S, side), targetPower))
             ELSE S, t)
    ELSE EnterRamping(SetTargets(S, side, direction, targetPower), t)

smoothDecelerate(S, side, direction, targetPower, t) ==
    IF ~S.mm.smoothEnabled
    THEN updateTelemetry(
             IF targetPower = 0
             THEN SetMotor(S, side, Motor_stop(GetMotor(S, side)))
             ELSE IF direction = MOTOR_FORWARD
             THEN SetMotor(S, side, Motor_forward(GetMotor(S, side), targetPower))
             ELSE IF direction = MOTOR_BACKWARD
             THEN SetMotor(S, side, Motor_backward(GetMotor(S, side), targetPower))
             ELSE S, t)
    ELSE EnterRamping(
             SetTargets(S, side,
                        IF targetPower = 0 THEN MOTOR_STOPPED ELSE direction,
                        targetPower), t)

\* (mutant) a transition that does not stop the channel first.
NoStopBeforeReversal(S, side, newDirection) == S

\* "If changing direction, stop first": the stop and the two extra steps.
StopBeforeReversal(S, side, newDirection) ==
    IF GetMotor(S, side).direction # MOTOR_STOPPED
       /\ GetMotor(S, side).direction # newDirection
    THEN [SetMotor(S, side, Motor_stop(GetMotor(S, side))) EXCEPT
              !.mm.currentAccelStep = 0,
              !.mm.totalAccelSteps = U8(S.mm.totalAccelSteps + 2)]
    ELSE S

smoothTransition(S, side, newDirection, targetPower, t) ==
    IF ~S.mm.smoothEnabled
    THEN updateTelemetry(
             IF newDirection = MOTOR_FORWARD
             THEN SetMotor(S, side, Motor_forward(GetMotor(S, side), targetPower))
             ELSE IF newDirection = MOTOR_BACKWARD
             THEN SetMotor(S, side, Motor_backward(GetMotor(S, side), targetPower))
             ELSE SetMotor(S, side, Motor_stop(GetMotor(S, side))), t)
    ELSE EnterRamping(
             SetTargets(StopBeforeReversal(S, side, newDirection),
                        side, newDirection, targetPower), t)

\* leftForward / leftBackward / rightForward / rightBackward share one body.
driveChannel(S, side, direction, power, smooth, t) ==
    updateTelemetry(
        IF smooth /\ S.mm.smoothEnabled
        THEN IF GetMotor(S, side).direction = direction
             THEN IF power > GetMotor(S, side).power
                  THEN smoothAccelerate(S, side, direction, power, t)
                  ELSE IF power < GetMotor(S, side).power
                  THEN smoothDecelerate(S, side, direction, power, t)
                  ELSE S
             ELSE smoothTransition(S, side, direction, power, t)
        ELSE IF direction = MOTOR_FORWARD
             THEN SetMotor(S, side, Motor_forward(GetMotor(S, side), power))
             ELSE SetMotor(S, side, Motor_backward(GetMotor(S, side), power)), t)

leftForward(S, power, smooth, t) ==
    driveChannel(S, "left", MOTOR_FORWARD, power, smooth, t)
leftBackward(S, power, smooth, t) ==
    driveChannel(S, "left", MOTOR_BACKWARD, power, smooth, t)
rightForward(S, power, smooth, t) ==
    driveChannel(S, "right", MOTOR_FORWARD, power, smooth, t)
rightBackward(S, power, smooth, t) ==
    driveChannel(S, "right", MOTOR_BACKWARD, power, smooth, t)

\* leftStop / rightStop share one body.
stopChannel(S, side, t) ==
    updateTelemetry(
        IF S.mm.smoothEnabled /\ GetMotor(S, side).power > 0
        THEN smoothDecelerate(S, side, GetMotor(S, side).direction, 0, t)
        ELSE SetMotor(S, side, Motor_stop(GetMotor(S, side))), t)

leftStop(S, t) == stopChannel(S, "left", t)
rightStop(S, t) == stopChannel(S, "right", t)

\* (mutant) stop() without the assignment.
KeepAccelerating(S) == S

\* The assignment _isAccelerating = false of stop().
ClearAccelerating(S) == [S EXCEPT !.mm.isAccelerating = FALSE]

stop(S, t) == updateTelemetry(ClearAccelerating(rightStop(leftStop(S, t), t)), t)

setSmoothEnabled(S, enable, t) ==
    updateTelemetry([S EXCEPT !.mm.smoothEnabled = enable], t)

setLeftCalibration(S, calibration, t) ==
    updateTelemetry([S EXCEPT !.mm.leftMotor =
                         Motor_setCalibration(S.mm.leftMotor, calibration)], t)

setRightCalibration(S, calibration, t) ==
    updateTelemetry([S EXCEPT !.mm.rightMotor =
                         Motor_setCalibration(S.mm.rightMotor, calibration)], t)

\* (mutant) a step gate that does not look at the clock.
StepAlwaysDue(S, t) == TRUE

\* currentTime - _lastAccelUpdateTime < SMOOTH_ACCEL_DELAY does not hold.
StepDue(S, t) == ~(USub(t, S.mm.lastAccelUpdateTime) < SMOOTH_ACCEL_DELAY)

\* (mutant) the intermediate power rounded up instead of truncated.
RampPowerCeil(targetPower, step, total) ==
    (targetPower * step + total - 1) \div total

\* (mutant) the ramp run from the target down.
RampPowerDown(targetPower, step, total) ==
    F32MulToU8(targetPower, F32Div(total - step, total))

\* progress = (float)step / total;  uint8_t power = targetPower * progress
RampPower(targetPower, step, total) ==
    F32MulToU8(targetPower, F32Div(step, total))

\* One channel's actuation in a step: skipped when its target is Stopped.
ApplyTarget(S, side, direction, power) ==
    IF direction = MOTOR_STOPPED THEN S
    ELSE IF direction = MOTOR_FORWARD
    THEN SetMotor(S, side, Motor_forward(GetMotor(S, side), power))
    ELSE SetMotor(S, side, Motor_backward(GetMotor(S, side), power))

\* The branch _currentAccelStep >= _totalAccelSteps.
FinishRamp(S, t) ==
    LET S1 == ApplyTarget(S, "left", S.mm.leftTargetDirection, S.mm.leftTargetPower)
        S2 == ApplyTarget(S1, "right", S.mm.rightTargetDirection, S.mm.rightTargetPower)
    IN updateTelemetry([S2 EXCEPT !.mm.isAccelerating = FALSE], t)

\* The intermediate step.
StepRamp(S, t) ==
    LET step == S.mm.currentAccelStep
        total == S.mm.totalAccelSteps
        S1 == ApplyTarget(S, "left", S.mm.leftTargetDirection,
                          RampPower(S.mm.leftTargetPower, step, total))
        S2 == ApplyTarget(S1, "right", S.mm.rightTargetDirection,
                          RampPower(S.mm.rightTargetPower, step, total))
    IN IF step % 3 = 0 THEN updateTelemetry(S2, t) ELSE S2

\* (mutant) a poll that ends the ramp one step late.
updateAccelerationLate(S, t) ==
    IF ~S.mm.isAccelerating \/ ~S.mm.smoothEnabled THEN S
    ELSE IF ~StepDue(S, t) THEN S
    ELSE LET S1 == [S EXCEPT !.mm.lastAccelUpdateTime = t,
                             !.mm.currentAccelStep = U8(S.mm.currentAccelStep + 1)]
         IN IF S1.mm.currentAccelStep > S1.mm.totalAccelSteps
            THEN FinishRamp(S1, t)
            ELSE StepRamp(S1, t)

\* (mutant) a poll that does not look at the smoothing switch.
updateAccelerationAnySmoothing(S, t) ==
    IF ~S.mm.isAccelerating THEN S
    ELSE IF ~StepDue(S, t) THEN S
    ELSE LET S1 == [S EXCEPT !.mm.lastAccelUpdateTime = t,
                             !.mm.currentAccelStep = U8(S.mm.currentAccelStep + 1)]
         IN IF S1.mm.currentAccelStep >= S1.mm.totalAccelSteps
            THEN FinishRamp(S1, t)
            ELSE StepRamp(S1, t)

updateAcceleration(S, t) ==
    IF ~S.mm.isAccelerating \/ ~S.mm.smoothEnabled THEN S
    ELSE IF ~StepDue(S, t) THEN S
    ELSE LET S1 == [S EXCEPT !.mm.lastAccelUpdateTime = t,
                             !.mm.currentAccelStep = U8(S.mm.currentAccelStep + 1)]
         IN IF S1.mm.currentAccelStep >= S1.mm.totalAccelSteps
            THEN FinishRamp(S1, t)
            ELSE StepRamp(S1, t)

\* ------------------------------------------------------------ state machine
Sys == [mm |-> mm, tel |-> tel, ut |-> ut]

Commit(S) == mm' = S.mm /\ tel' = S.tel /\ ut' = S.ut

NoCmd ==
    [op |-> "none", side |-> "-", dir |-> "-", power |-> 0, smooth |-> FALSE,
     d0 |-> "-", moving0 |-> FALSE, power0 |-> 0, rel |-> "-",
     smooth0 |-> FALSE, accel0 |-> FALSE]

\* The power-on state: the constructor, then begin(), at clock value 0.
Init ==
    /\ now = 0
    /\ \E cl \in InitCalibrations, cr \in InitCalibrations :
         LET S == MotionMotors_begin(
                      [mm |-> MotionMotors(F32Div(cl[1], cl[2]), F32Div(cr[1], cr[2])),
                       tel |-> Telemetry_begin(DEFAULT_TELEMETRY_INTERVAL, 0),
                       ut |-> UpdateTelemetryStatics], 0)
         IN mm = S.mm /\ tel = S.tel /\ ut = S.ut
    /\ serial = [count |-> 0, last |-> NoRecord]
    /\ lastCmd = NoCmd
    /\ duePoll = FALSE

\* History: the command and what it met (d0: the channel's direction,
\* moving0: its power was above 0, power0: its power, rel: the commanded
\* power against its power).
Cmd(op, side, dir, power, smooth) ==
    [op |-> op, side |-> side, dir |-> dir, power |-> power, smooth |-> smooth,
     d0 |-> IF side \in Sides THEN GetMotor(Sys, side).direction ELSE "-",
     moving0 |-> side \in Sides /\ GetMotor(Sys, side).power > 0,
     power0 |-> IF side \in Sides THEN GetMotor(Sys, side).power ELSE 0,
     rel |-> IF side \in Sides /\ op = "drive"
             THEN IF power > GetMotor(Sys, side).power THEN "above"
                  ELSE IF power < GetMotor(Sys, side).power THEN "below" ELSE "equal"
             ELSE "-",
     smooth0 |-> mm.smoothEnabled, accel0 |-> mm.isAccelerating]

\* Control operations arrive in the first MaxSetupTime milliseconds, and again
\* once a ramp has run to its end.
CommandTime ==
    \/ now <= MaxSetupTime
    \/ mm.totalAccelSteps > 0 /\ mm.currentAccelStep >= mm.totalAccelSteps

\* The history a control operation leaves.
Issued(cmd) ==
    /\ lastCmd' = cmd
    /\ duePoll' = FALSE
    /\ UNCHANGED <<serial, now>>

LeftForward ==
    \E p \in Powers, smooth \in BOOLEAN :
        /\ CommandTime
        /\ Commit(leftForward(Sys, p, smooth, now))
        /\ Issued(Cmd("drive", "left", MOTOR_FORWARD, p, smooth))

LeftBackward ==
    \E p \in Powers, smooth \in BOOLEAN :
        /\ CommandTime
        /\ Commit(leftBackward(Sys, p, smooth, now))
        /\ Issued(Cmd("drive", "left", MOTOR_BACKWARD, p, smooth))

RightForward ==
    \E p \in RightPowers, smooth \in RightSmooth :
        /\ CommandTime
        /\ Commit(rightForward(Sys, p, smooth, now))
        /\ Issued(Cmd("drive", "right", MOTOR_FORWARD, p, smooth))

RightBackward ==
    \E p \in RightPowers, smooth \in RightSmooth :
        /\ CommandTime
        /\ Commit(rightBackward(Sys, p, smooth, now))
        /\ Issued(Cmd("drive", "right", MOTOR_BACKWARD, p, smooth))

LeftStop ==
    /\ CommandTime
    /\ Commit(leftStop(Sys, now))
    /\ Issued(Cmd("stopChannel", "left", "-", 0, TRUE))

RightStop ==
    /\ CommandTime
    /\ Commit(rightStop(Sys, now))
    /\ Issued(Cmd("stopChannel", "right", "-", 0, TRUE))

Stop ==
    /\ CommandTime
    /\ Commit(stop(Sys, now))
    /\ Issued(Cmd("stop", "-", "-", 0, TRUE))

SetSmoothEnabled ==
    \E enable \in BOOLEAN :
        /\ CommandTime
        /\ Commit(setSmoothEnabled(Sys, enable, now))
        /\ Issued(Cmd("setSmoothEnabled", "-", "-", 0, enable))

UpdateAcceleration ==
    /\ Commit(updateAcceleration(Sys, now))
    /\ duePoll' = (duePoll \/ (lastCmd.op = "stop" /\ StepDue(Sys, now)))
    /\ UNCHANGED <<serial, now, lastCmd>>

Tick ==
    \E d \in TickSteps :
        /\ now + d <= MaxTime
        /\ USub(now, mm.lastAccelUpdateTime) + d <= MaxIdle
        /\ now' = (now + d) % ClockMod
        /\ UNCHANGED <<mm, tel, ut, serial, lastCmd, duePoll>>

Next ==
    \/ LeftForward \/ LeftBackward \/ RightForward \/ RightBackward
    \/ LeftStop \/ RightStop \/ Stop
    \/ SetSmoothEnabled
    \/ UpdateAcceleration
    \/ Tick

Spec == Init /\ [][Next]_vars

\* ------------------------------------------------------ claims: the engine
Left == mm.leftMotor
Right == mm.rightMotor

\* The channel lastCmd addressed.
CmdMotor == IF lastCmd.side = "right" THEN mm.rightMotor ELSE mm.leftMotor

AtRest(m) ==
    m.direction = MOTOR_STOPPED /\ m.power = 0
    /\ m.forwardOut = 0 /\ m.backwardOut = 0

\* lastCmd is a drive command that took the smooth path.
SmoothDrive == lastCmd.op = "drive" /\ lastCmd.smooth /\ lastCmd.smooth0

\* ... from rest / against the direction the channel was moving in /
\* to a lower, nonzero power / to a higher power in its direction.
FromStop == SmoothDrive /\ lastCmd.d0 = MOTOR_STOPPED
Reversal ==
    SmoothDrive /\ lastCmd.d0 \in DriveDirections /\ lastCmd.d0 # lastCmd.dir
    /\ lastCmd.moving0
Decelerate ==
    SmoothDrive /\ lastCmd.d0 = lastCmd.dir /\ lastCmd.rel = "below"
    /\ lastCmd.power > 0
Accelerate ==
    SmoothDrive /\ lastCmd.d0 = lastCmd.dir /\ lastCmd.rel = "above"

\* What a poll may act on: the two actuators, the sink, the ramp position.
RampObservables ==
    <<mm.leftMotor.direction, mm.leftMotor.power,
      mm.leftMotor.forwardOut, mm.leftMotor.backwardOut,
      mm.rightMotor.direction, mm.rightMotor.power,
      mm.rightMotor.forwardOut, mm.rightMotor.backwardOut,
      mm.currentAccelStep, mm.isAccelerating>>

\* C1: when stop() is called while accelerating, on return both channels
\* have power 0, direction Stopped and sink (0,0), and accelerating is false.
\* (The state stop() left lasts until the next control operation: polls are
\* gated by accelerating.)
C1_StopAllZeroesBoth ==
    (lastCmd.op = "stop" /\ lastCmd.accel0) =>
        AtRest(Left) /\ AtRest(Right) /\ ~mm.isAccelerating

\* C2: after stop(), every updateAcceleration() poll made before the next
\* control operation leaves the actuators' direction and power, the sink
\* outputs, currentStep and accelerating unchanged, whatever the clock says.
C2_NoStepSurvivesStop ==
    [][(lastCmd.op = "stop" /\ UpdateAcceleration) => UNCHANGED RampObservables]_vars

\* A poll was made after a stop() that cancelled a ramp, at a time when the
\* inter-step delay had elapsed.
C2_Witness == lastCmd.op = "stop" /\ lastCmd.accel0 /\ duePoll

\* C3: after a smooth leftStop()/rightStop() on a moving channel, polls
\* spaced the inter-step delay apart bring the channel to power 0, Stopped,
\* sink (0,0).  Finite form: once the ramp that the stop started is over
\* (accelerating is false again, after which polls change nothing), the
\* channel is at rest.
C3_SmoothStopReachesZero ==
    (lastCmd.op = "stopChannel" /\ lastCmd.smooth0 /\ lastCmd.moving0
     /\ ~mm.isAccelerating) => AtRest(CmdMotor)

\* C4: after a smooth drive command of power p on a channel at Stopped, the
\* k-th eligible poll (1 <= k < N) leaves the channel in the commanded
\* direction at power floor(p*k/N), and the N-th at power p exactly with
\* accelerating false.
C4_StartFromStopRamp ==
    LET k == mm.currentAccelStep
        N == SMOOTH_ACCEL_STEPS
    IN (FromStop /\ k >= 1) =>
          /\ k <= N
          /\ CmdMotor.direction = lastCmd.dir
          /\ k < N => (CmdMotor.power = (lastCmd.power * k) \div N
                       /\ mm.isAccelerating)
          /\ k = N => (CmdMotor.power = lastCmd.power /\ ~mm.isAccelerating)

\* driveForward(200) from rest: the tenth eligible poll has set 200 exactly.
C4_Witness ==
    /\ FromStop /\ lastCmd.power = 200
    /\ mm.currentAccelStep = SMOOTH_ACCEL_STEPS
    /\ CmdMotor.power = 200 /\ ~mm.isAccelerating

\* C5: a smooth command against the direction a channel is moving in leaves
\* that channel at (0,0)/Stopped until the first step in the new direction,
\* the polls of the reversal put nothing on the old direction's output, and
\* a channel's two outputs are never both nonzero.
C5_ReversalSafety ==
    /\ \A m \in {Left, Right} : ~(m.forwardOut > 0 /\ m.backwardOut > 0)
    /\ (Reversal /\ mm.currentAccelStep = 0) => AtRest(CmdMotor)
    /\ Reversal =>
          IF lastCmd.dir = MOTOR_FORWARD THEN CmdMotor.backwardOut = 0
          ELSE CmdMotor.forwardOut = 0

\* A reversal has just been commanded: the channel stands still, ramp set up.
C5_Witness ==
    /\ Reversal /\ mm.currentAccelStep = 0 /\ mm.isAccelerating
    /\ AtRest(CmdMotor)

\* C6: the ramp cycle a reversing smooth command starts has totalSteps equal
\* to the default step count plus 2; a start from rest has the default.
C6_ReversalPauseLength ==
    /\ Reversal => mm.totalAccelSteps = SMOOTH_ACCEL_STEPS + 2
    /\ FromStop => mm.totalAccelSteps = SMOOTH_ACCEL_STEPS

\* C7: after a smooth same-direction command to a lower power p1 > 0, the
\* channel's power never rises from one state to the next while only polls
\* follow, and the poll that ends the ramp sets p1.
C7_DecelerateNonIncreasing ==
    [][(Decelerate /\ lastCmd' = lastCmd) =>
          /\ CmdMotor'.power <= CmdMotor.power
          /\ (mm.isAccelerating /\ ~mm'.isAccelerating)
                => CmdMotor'.power = lastCmd.power]_vars

\* C8: within an Accelerate cycle, each eligible poll after the first sets a
\* power no lower than the poll before it, in the commanded direction, and
\* the poll that ends the cycle sets the target exactly and clears
\* accelerating.
C8_AccelerateNonDecreasing ==
    [][(Accelerate /\ lastCmd' = lastCmd) =>
          /\ (mm.currentAccelStep >= 1 /\ mm'.currentAccelStep # mm.currentAccelStep)
                => (CmdMotor'.power >= CmdMotor.power
                    /\ CmdMotor'.direction = lastCmd.dir)
          /\ mm'.currentAccelStep >= SMOOTH_ACCEL_STEPS
                => (CmdMotor'.power = lastCmd.power /\ ~mm'.isAccelerating)
          /\ mm'.currentAccelStep <= SMOOTH_ACCEL_STEPS]_vars

\* An Accelerate cycle has run to its end.
C8_Witness ==
    /\ Accelerate /\ mm.currentAccelStep = SMOOTH_ACCEL_STEPS
    /\ CmdMotor.power = lastCmd.power /\ ~mm.isAccelerating

\* C22: in a ramp cycle started by a same-direction speed change from power
\* p0 to target p1, every power a poll actuates lies between min(p0, p1) and
\* max(p0, p1).  (The channel's power after the cycle's k-th step, k >= 1,
\* is the power that poll actuated.)
C22_RampFromCurrentPower ==
    ((Accelerate \/ Decelerate) /\ mm.currentAccelStep >= 1) =>
        LET p0 == lastCmd.power0
            p1 == lastCmd.power
        IN /\ CmdMotor.power >= (IF p0 < p1 THEN p0 ELSE p1)
           /\ CmdMotor.power <= (IF p0 < p1 THEN p1 ELSE p0)

\* C25: a poll that changes a channel's direction finds the channel Stopped;
\* and no step takes a channel from a nonzero output on one direction's pin
\* to a nonzero output on the other's.
C25_StepNeverReverses ==
    [][/\ UpdateAcceleration =>
            /\ Left'.direction # Left.direction => Left.direction = MOTOR_STOPPED
            /\ Right'.direction # Right.direction => Right.direction = MOTOR_STOPPED
       /\ ~(Left.forwardOut > 0 /\ Left'.backwardOut > 0)
       /\ ~(Left.backwardOut > 0 /\ Left'.forwardOut > 0)
       /\ ~(Right.forwardOut > 0 /\ Right'.backwardOut > 0)
       /\ ~(Right.backwardOut > 0 /\ Right'.forwardOut > 0)]_vars

\* C27: when a control operation or a poll has returned, the snapshot's
\* per-channel power, forward flag and calibration, accelerating and
\* smoothEnabled equal the engine's.
C27_SnapshotMirrorsEngine ==
    Mirrored(tel.data) =
        [leftMotorPower |-> Left.power, rightMotorPower |-> Right.power,
         leftMotorForward |-> (Left.direction = MOTOR_FORWARD),
         rightMotorForward |-> (Right.direction = MOTOR_FORWARD),
         leftCalibration |-> Left.calibration,
         rightCalibration |-> Right.calibration,
         isAccelerating |-> mm.isAccelerating,
         smoothEnabled |-> mm.smoothEnabled]

\* lastCmd is a smooth drive command that entered a ramp cycle (its target is
\* the commanded direction, never Stopped), and smoothing is still enabled.
RampEntered ==
    /\ SmoothDrive /\ lastCmd.power > 0 /\ mm.smoothEnabled
    /\ ~(lastCmd.d0 = lastCmd.dir /\ lastCmd.rel = "equal")

\* C28: in a ramp cycle entered with a non-stopped target, with smoothing
\* enabled and no control operation since, every eligible poll advances
\* currentStep by one from 0, accelerating is true exactly while
\* currentStep < totalSteps (so it becomes false at the totalSteps-th
\* eligible poll), and once it is false a poll changes nothing.
C28_RampTermination ==
    RampEntered =>
        /\ mm.isAccelerating <=> mm.currentAccelStep < mm.totalAccelSteps
        /\ mm.totalAccelSteps = SMOOTH_ACCEL_STEPS
        /\ (mm.isAccelerating /\ StepDue(Sys, now)) =>
              /\ updateAcceleration(Sys, now).mm.currentAccelStep
                    = mm.currentAccelStep + 1
              /\ updateAcceleration(Sys, now).mm.isAccelerating
                    <=> mm.currentAccelStep + 1 < mm.totalAccelSteps
        /\ (mm.isAccelerating /\ ~StepDue(Sys, now)) =>
              updateAcceleration(Sys, now) = Sys
        /\ ~mm.isAccelerating => updateAcceleration(Sys, now) = Sys

\* The cycle of a reversal has ended at its totalSteps-th eligible poll, and
\* the clock has moved on to a time at which a step would be due.
C28_Witness ==
    /\ RampEntered /\ Reversal /\ ~mm.isAccelerating
    /\ mm.currentAccelStep = mm.totalAccelSteps
    /\ now - mm.lastAccelUpdateTime >= SMOOTH_ACCEL_DELAY

\* C12: updateAcceleration() changes no state at all when accelerating is
\* false, when smoothEnabled is false, or when fewer than the inter-step
\* delay milliseconds have passed since lastStepTime; otherwise it advances
\* currentStep by exactly 1 and sets lastStepTime to now.
\* (A poll that changes nothing is a stuttering step, so what a poll does is
\* also stated of every reachable state.)
C12_StepAdvanceGated ==
    /\ [](IF \/ ~mm.isAccelerating
             \/ ~mm.smoothEnabled
             \/ now - mm.lastAccelUpdateTime < SMOOTH_ACCEL_DELAY
          THEN updateAcceleration(Sys, now) = Sys
          ELSE /\ updateAcceleration(Sys, now).mm.currentAccelStep
                     = mm.currentAccelStep + 1
               /\ updateAcceleration(Sys, now).mm.lastAccelUpdateTime = now)
    /\ [][UpdateAcceleration =>
             IF \/ ~mm.isAccelerating
                \/ ~mm.smoothEnabled
                \/ now - mm.lastAccelUpdateTime < SMOOTH_ACCEL_DELAY
             THEN UNCHANGED <<mm, tel, ut, serial>>
             ELSE /\ mm'.currentAccelStep = mm.currentAccelStep + 1
                  /\ mm'.lastAccelUpdateTime = now]_vars

\* A poll has just advanced a ramp whose earlier steps it had to wait for.
C12_Witness ==
    /\ mm.isAccelerating /\ mm.smoothEnabled
    /\ mm.currentAccelStep = 2 /\ mm.lastAccelUpdateTime = now

\* C13: accelerating implies totalSteps > 0; currentStep <= totalSteps
\* always, and currentStep < totalSteps while accelerating.
C13_RampStateInvariant ==
    /\ mm.isAccelerating => mm.totalAccelSteps > 0
    /\ mm.currentAccelStep <= mm.totalAccelSteps
    /\ mm.isAccelerating => mm.currentAccelStep < mm.totalAccelSteps

\* A ramp has been set up by a command that followed the end of an earlier
\* ramp (commands after the first MaxSetupTime ms wait for one to end).
C13_Witness ==
    /\ mm.isAccelerating /\ mm.currentAccelStep = 0
    /\ mm.lastAccelUpdateTime > MaxSetupTime /\ SmoothDrive

\* C14: after a drive command that takes the immediate path (smoothEnabled
\* false, or smooth = false passed), accelerating is false, also when the
\* command arrived while a ramp was in progress.  (Polls never set
\* accelerating, so the state the command left is what later states show.)
C14_ImmediateLeavesIdle ==
    (lastCmd.op = "drive" /\ ~(lastCmd.smooth /\ lastCmd.smooth0))
        => ~mm.isAccelerating

\* C15: while smoothEnabled is false, a drive or stop operation leaves the
\* addressed channel at the commanded direction and power (Stopped/0 for a
\* stop) with the matching sink output, and no poll that follows it
\* changes that.
C15_SmoothingOffMeansImmediate ==
    /\ (lastCmd.op = "drive" /\ ~lastCmd.smooth0) =>
          /\ CmdMotor.direction = lastCmd.dir /\ CmdMotor.power = lastCmd.power
          /\ CmdMotor.forwardOut =
                (IF lastCmd.dir = MOTOR_FORWARD THEN lastCmd.power ELSE 0)
          /\ CmdMotor.backwardOut =
                (IF lastCmd.dir = MOTOR_BACKWARD THEN lastCmd.power ELSE 0)
    /\ (lastCmd.op = "stopChannel" /\ ~lastCmd.smooth0) => AtRest(CmdMotor)
    /\ (lastCmd.op = "stop" /\ ~lastCmd.smooth0) => AtRest(Left) /\ AtRest(Right)

\* Smoothing was switched off during a ramp, a drive command followed, and
\* the clock has passed the time at which the abandoned ramp's step was due.
C15_Witness ==
    /\ lastCmd.op = "drive" /\ ~lastCmd.smooth0 /\ lastCmd.smooth
    /\ mm.isAccelerating /\ ~mm.smoothEnabled
    /\ now - mm.lastAccelUpdateTime >= SMOOTH_ACCEL_DELAY
    /\ CmdMotor.power = lastCmd.power

\* ------------------------------------------ state machine: calibration runs
\* The engine constructed with any calibrations, its calibration setters,
\* immediate drive commands on the left channel, its stop, and
\* Telemetry::send; the clock advances by one telemetry interval and send is
\* called before the first control operation.
InitCalibration ==
    /\ now = 0
    /\ \E vl \in CalInputs, vr \in RightCalInputs :
         LET S == MotionMotors_begin(
                      [mm |-> MotionMotors(CalFloat(vl), CalFloat(vr)),
                       tel |-> Telemetry_begin(DEFAULT_TELEMETRY_INTERVAL, 0),
                       ut |-> UpdateTelemetryStatics], 0)
         IN mm = S.mm /\ tel = S.tel /\ ut = S.ut
    /\ serial = [count |-> 0, last |-> NoRecord]
    /\ lastCmd = NoCmd
    /\ duePoll = FALSE

SetLeftCalibration ==
    \E v \in CalInputs :
        /\ Commit(setLeftCalibration(Sys, CalFloat(v), now))
        /\ Issued([v |-> v] @@ Cmd("setCalibration", "left", "-", 0, TRUE))

SetRightCalibration ==
    \E v \in RightCalInputs :
        /\ Commit(setRightCalibration(Sys, CalFloat(v), now))
        /\ Issued([v |-> v] @@ Cmd("setCalibration", "right", "-", 0, TRUE))

CalLeftForward ==
    \E p \in CalPowers :
        /\ Commit(leftForward(Sys, p, FALSE, now))
        /\ Issued(Cmd("drive", "left", MOTOR_FORWARD, p, FALSE))

CalLeftBackward ==
    \E p \in CalPowers :
        /\ Commit(leftBackward(Sys, p, FALSE, now))
        /\ Issued(Cmd("drive", "left", MOTOR_BACKWARD, p, FALSE))

CalLeftStop ==
    /\ Commit(leftStop(Sys, now))
    /\ Issued(Cmd("stopChannel", "left", "-", 0, TRUE))

CalSend ==
    /\ lastCmd = NoCmd
    /\ SendGate(tel, now) => serial.count < MaxRecords
    /\ tel' = Telemetry_send(tel, serial, now).tel
    /\ serial' = Telemetry_send(tel, serial, now).serial
    /\ UNCHANGED <<mm, ut, now, lastCmd, duePoll>>

CalTick ==
    /\ lastCmd = NoCmd
    /\ now + DEFAULT_TELEMETRY_INTERVAL <= MaxCalTime
    /\ now' = (now + DEFAULT_TELEMETRY_INTERVAL) % ClockMod
    /\ UNCHANGED <<mm, tel, ut, serial, lastCmd, duePoll>>

NextCalibration ==
    \/ SetLeftCalibration \/ SetRightCalibration
    \/ CalLeftForward \/ CalLeftBackward \/ CalLeftStop
    \/ CalSend \/ CalTick

SpecCalibration == InitCalibration /\ [][NextCalibration]_vars

\* ---------------------------------------------------- claims: calibration
\* The numerator n of a stored calibration n / CalDen.
CalRatio(f) == CHOOSE n \in 0..CalDen : F32Div(n, CalDen) = f

\* v / CalDen clamped to [0, 1], as a numerator.
ClampNum(v) == IF v < 0 THEN 0 ELSE IF v > CalDen THEN CalDen ELSE v

\* Both stored calibrations, the values m / 2^e, are within [0, 1].
CalInRange ==
    \A m \in {Left, Right} :
        0 <= m.calibration.m /\ m.calibration.m <= 2 ^ m.calibration.e

\* C16: with calibration c = n / CalDen, drive(Forward, p) issues
\* (floor(p*c), 0), drive(Backward, p) issues (0, floor(p*c)), stop issues
\* (0, 0), and floor(p*c) is in [0, p].
C16_ActuationMapping ==
    LET q == (lastCmd.power * CalRatio(Left.calibration)) \div CalDen
    IN /\ lastCmd.op = "drive" =>
             /\ q \in 0..lastCmd.power
             /\ Left.forwardOut = (IF lastCmd.dir = MOTOR_FORWARD THEN q ELSE 0)
             /\ Left.backwardOut = (IF lastCmd.dir = MOTOR_BACKWARD THEN q ELSE 0)
       /\ (lastCmd.op = "stopChannel" /\ ~(lastCmd.smooth0 /\ lastCmd.moving0)) =>
             (Left.forwardOut = 0 /\ Left.backwardOut = 0)

\* C17: setCalibration(v) stores v clamped to [0,1] and leaves the
\* actuator's direction, power and sink outputs as they were; the stored
\* calibration is within [0,1] in every reachable state.
C17_SetCalibrationClamps ==
    [][/\ CalInRange /\ CalInRange'
       /\ (lastCmd'.op = "setCalibration" /\ SetLeftCalibration) =>
           /\ Left'.calibration = F32Div(ClampNum(lastCmd'.v), CalDen)
           /\ Left'.direction = Left.direction /\ Left'.power = Left.power
           /\ Left'.forwardOut = Left.forwardOut
           /\ Left'.backwardOut = Left.backwardOut
       /\ (lastCmd'.op = "setCalibration" /\ SetRightCalibration) =>
           /\ Right'.calibration = F32Div(ClampNum(lastCmd'.v), CalDen)
           /\ Right'.direction = Right.direction /\ Right'.power = Right.power
           /\ Right'.forwardOut = Right.forwardOut
           /\ Right'.backwardOut = Right.backwardOut]_vars

\* A calibration above 1 was given to a channel that is being driven under
\* a lower one: 1.0 is stored, the output is still the reduced one.
C17_Witness ==
    /\ lastCmd.op = "setCalibration" /\ lastCmd.side = "left"
    /\ lastCmd.v > CalDen /\ Left.calibration = F32One
    /\ Left.power > 0 /\ Left.forwardOut > 0 /\ Left.forwardOut < Left.power

\* C18: after setLeftCalibration(v) / setRightCalibration(v) the actuator's
\* calibration is clamp(v,0,1), the snapshot's calibration field of that
\* channel is the same value, and the dirty flag is set if that value
\* differs from the snapshot's value before the call.
C18_CalibrationReachesTelemetry ==
    [][/\ (lastCmd'.op = "setCalibration" /\ SetLeftCalibration) =>
          LET c == F32Div(ClampNum(lastCmd'.v), CalDen)
          IN /\ Left'.calibration = c
             /\ tel'.data.leftCalibration = c
             /\ c # tel.data.leftCalibration => tel'.dataChanged
       /\ (lastCmd'.op = "setCalibration" /\ SetRightCalibration) =>
          LET c == F32Div(ClampNum(lastCmd'.v), CalDen)
          IN /\ Right'.calibration = c
             /\ tel'.data.rightCalibration = c
             /\ c # tel.data.rightCalibration => tel'.dataChanged]_vars

\* C20: in every state reachable through control operations and polls, a
\* channel's power is 0 if and only if its direction is Stopped.
C20_DirectionPowerConsistency ==
    \A m \in {Left, Right} : (m.power = 0) <=> (m.direction = MOTOR_STOPPED)

\* ------------------------------- state machine: calibration then command
\* The engine constructed with any calibrations; calibration setters and
\* drive commands on the left channel, immediate or smooth, at one clock
\* value.
CalLeftSmooth ==
    \E dir \in DriveDirections, p \in CalPowers :
        /\ Commit(driveChannel(Sys, "left", dir, p, TRUE, now))
        /\ Issued(Cmd("drive", "left", dir, p, TRUE))

NextCalCommand ==
    \/ SetLeftCalibration
    \/ CalLeftForward \/ CalLeftBackward
    \/ CalLeftSmooth

SpecCalCommand == InitCalibration /\ [][NextCalCommand]_vars

\* ------------------------------------- claims: calibration then command
\* C30: after setLeftCalibration(v), the next drive command on the left
\* channel, smooth or not, leaves the channel's sink magnitude equal to
\* power * clamp(v) truncated (the product as the actuator computes it) for
\* the channel's resulting power.
C30_NewCalibrationOnNextCommand ==
    [][(lastCmd.op = "setCalibration" /\ lastCmd.side = "left"
        /\ lastCmd'.op = "drive")
       => (Left'.forwardOut + Left'.backwardOut
             = F32MulToU8(Left'.power, Left'.calibration))]_vars

\* ------------------------------------------ state machine: one actuator
\* forward, backward and stop called in any order on the left actuator of
\* the power-on state.  A call takes two steps, one for each analogWrite of
\* applyPower.  lastCmd holds the call (with pc, its position), the actuator
\* as the call found it (m0), what the call before it set (prev), and
\* whether the call handed an event to the logger (logged).
MotorCalls ==
    {[op |-> o, power |-> p] : o \in {"forward", "backward"}, p \in MotorPowers}
        \cup {[op |-> "stop", power |-> 0]}

MotorEnter ==
    \E c \in MotorCalls :
        /\ IF lastCmd.op = "none" THEN TRUE ELSE lastCmd.pc = "returned"
        /\ mm' = [mm EXCEPT !.leftMotor = ForwardPinWritten(mm.leftMotor, c)]
        /\ lastCmd' = [op |-> c.op, power |-> c.power, pc |-> "backwardPin",
                        m0 |-> mm.leftMotor,
                        prev |-> IF lastCmd.op = "none" THEN <<MOTOR_STOPPED, 0>>
                                 ELSE CallSets(lastCmd),
                        logged |-> Motor_logs(mm.leftMotor, c)]
        /\ UNCHANGED <<tel, ut, serial, now, duePoll>>

MotorReturn ==
    /\ lastCmd.op # "none" /\ lastCmd.pc = "backwardPin"
    /\ mm' = [mm EXCEPT !.leftMotor = Motor_call(lastCmd.m0, lastCmd)]
    /\ lastCmd' = [lastCmd EXCEPT !.pc = "returned"]
    /\ UNCHANGED <<tel, ut, serial, now, duePoll>>

NextMotor == MotorEnter \/ MotorReturn

SpecMotor == Init /\ [][NextMotor]_vars

\* ------------------------------------------------ claims: one actuator
\* C21: a call of forward, backward or stop hands an event to the logger if
\* and only if the (direction, power) it sets differs from the one the
\* previous call on the actuator set (initially Stopped, 0).
C21_DiagnosticSuppression ==
    lastCmd.op # "none" =>
        /\ lastCmd.logged <=> (CallSets(lastCmd) # lastCmd.prev)
        /\ lastCmd.pc = "returned" =>
              /\ <<Left.direction, Left.power>> = CallSets(lastCmd)
              /\ <<Left.lastReportedDirection, Left.lastReportedPower>>
                    = CallSets(lastCmd)

\* forward(p), p > 0, was repeated: the second call has returned and handed
\* nothing to the logger.
C21_Witness ==
    /\ lastCmd.op = "forward" /\ lastCmd.pc = "returned" /\ lastCmd.power > 0
    /\ lastCmd.prev = <<MOTOR_FORWARD, lastCmd.power>> /\ ~lastCmd.logged

\* C26: with applyPower as two writes, forward pin first, the two pins of a
\* channel are never both nonzero after any single write.
C26_PinLevelExclusion ==
    ~(Left.forwardOut > 0 /\ Left.backwardOut > 0)

\* ------------------------------------------------ state machine: the loop
\* The surrounding loop, run without end on the wrapping clock: each
\* iteration is the input adapter's turn, then updateAcceleration(), then a
\* clock advance; the clock may also advance between the adapter's turn and
\* the poll.  From the power-on state (both channels Stopped, smoothing
\* enabled) the adapter follows one of three scenarios:
\*   "both":   leftForward(pL) and rightForward(pR) in the first iteration,
\*             nothing afterwards;
\*   "repeat": the same leftForward(p) in every iteration;
\*   "last":   leftForward(p) in the first iteration, one more smooth left
\*             command in some later iteration, nothing afterwards.
\* lastCmd holds the scenario, the loop's position (pc), the last command
\* of each channel, and whether the scenario's last command is out (final).
LoopState(scenario, pc, dir, power, rpower, final) ==
    [op |-> "loop", scenario |-> scenario, pc |-> pc, dir |-> dir,
     power |-> power, rpower |-> rpower, final |-> final]

LoopStart ==
    \E scenario \in {"both", "repeat", "last"}, p \in LoopPowers :
        /\ lastCmd = NoCmd
        /\ Commit(leftForward(Sys, p, TRUE, now))
        /\ lastCmd' = LoopState(scenario,
                                 IF scenario = "both" THEN "right" ELSE "elapse",
                                 MOTOR_FORWARD, p, 0, scenario = "repeat")
        /\ UNCHANGED <<serial, now, duePoll>>

LoopRight ==
    \E p \in LoopPowers :
        /\ lastCmd.op = "loop" /\ lastCmd.pc = "right"
        /\ Commit(rightForward(Sys, p, TRUE, now))
        /\ lastCmd' = [lastCmd EXCEPT !.pc = "elapse", !.rpower = p, !.final = TRUE]
        /\ UNCHANGED <<serial, now, duePoll>>

LoopAgain ==
    /\ lastCmd.op = "loop" /\ lastCmd.pc = "command"
    /\ lastCmd.scenario = "repeat"
    /\ Commit(leftForward(Sys, lastCmd.power, TRUE, now))
    /\ lastCmd' = [lastCmd EXCEPT !.pc = "elapse"]
    /\ UNCHANGED <<serial, now, duePoll>>

LoopLast ==
    \E dir \in DriveDirections, p \in LoopPowers :
        /\ lastCmd.op = "loop" /\ lastCmd.pc = "command"
        /\ lastCmd.scenario = "last" /\ ~lastCmd.final
        /\ Commit(driveChannel(Sys, "left", dir, p, TRUE, now))
        /\ lastCmd' = [lastCmd EXCEPT !.pc = "elapse", !.dir = dir, !.power = p,
                                       !.final = TRUE]
        /\ UNCHANGED <<serial, now, duePoll>>

LoopSkip ==
    /\ lastCmd.op = "loop" /\ lastCmd.pc = "command"
    /\ lastCmd.scenario # "repeat"
    /\ lastCmd' = [lastCmd EXCEPT !.pc = "elapse"]
    /\ UNCHANGED <<mm, tel, ut, serial, now, duePoll>>

LoopElapse ==
    \E d \in {0} \cup LoopTickSteps :
        /\ lastCmd.op = "loop" /\ lastCmd.pc = "elapse"
        /\ now' = (now + d) % ClockMod
        /\ lastCmd' = [lastCmd EXCEPT !.pc = "poll"]
        /\ UNCHANGED <<mm, tel, ut, serial, duePoll>>

LoopPoll ==
    /\ lastCmd.op = "loop" /\ lastCmd.pc = "poll"
    /\ Commit(updateAcceleration(Sys, now))
    /\ lastCmd' = [lastCmd EXCEPT !.pc = "tick"]
    /\ UNCHANGED <<serial, now, duePoll>>

LoopTick ==
    \E d \in LoopTickSteps :
        /\ lastCmd.op = "loop" /\ lastCmd.pc = "tick"
        /\ now' = (now + d) % ClockMod
        /\ lastCmd' = [lastCmd EXCEPT !.pc = "command"]
        /\ UNCHANGED <<mm, tel, ut, serial, duePoll>>

NextLoop ==
    \/ LoopStart \/ LoopRight \/ LoopAgain \/ LoopLast \/ LoopSkip
    \/ LoopElapse \/ LoopPoll \/ LoopTick

SpecLoop == Init /\ [][NextLoop]_vars

\* The adapter's turn of an iteration.
LoopCommand == LoopRight \/ LoopAgain \/ LoopLast \/ LoopSkip

\* The loop is at its poll and goes on to the clock advance.  LoopAtPoll is
\* enabled exactly when LoopPoll is, and like LoopPoll it leaves the poll
\* position, so a behaviour of SpecLoop violates WF_vars(LoopAtPoll) exactly
\* when it violates WF_vars(LoopPoll): when it stays at the poll forever.
\* It is stated without the poll's effect on the engine, which the fairness
\* condition does not depend on and which is costly to evaluate under
\* ENABLED.
LoopAtPoll ==
    /\ lastCmd.op = "loop" /\ lastCmd.pc = "poll"
    /\ lastCmd' = [lastCmd EXCEPT !.pc = "tick"]
    /\ UNCHANGED <<mm, tel, ut, serial, now, duePoll>>

\* loop() is called again and again, and each of its three parts returns:
\* the run does not stay forever before the first command, at the adapter's
\* turn, between the turn and the poll, at the poll, or at the clock advance.
FairLoop ==
    /\ SpecLoop
    /\ WF_vars(LoopStart) /\ WF_vars(LoopCommand)
    /\ WF_vars(LoopElapse) /\ WF_vars(LoopAtPoll) /\ WF_vars(LoopTick)

\* --------------------------------------------------- claims: the loop
\* C23: with smoothing enabled and both channels Stopped, after a smooth
\* drive command of power pL on the left channel and then one of power pR
\* on the right, and no further control operation, the polls eventually
\* bring the left channel to power pL and the right channel to power pR.
C23_BothChannelsRamp ==
    (lastCmd.op = "loop" /\ lastCmd.scenario = "both" /\ lastCmd.final)
        ~> (lastCmd.op = "loop" /\ Left.power = lastCmd.power
            /\ Right.power = lastCmd.rpower)

\* C24: when the same smooth drive command of power p > 0 is re-issued in
\* every loop iteration for a channel that was Stopped, and
\* updateAcceleration() is polled in every iteration while the clock
\* advances, the channel eventually reaches power p with accelerating false.
C24_ProgressUnderRepeatedCommands ==
    (lastCmd.op = "loop" /\ lastCmd.scenario = "repeat")
        ~> (Left.power = lastCmd.power /\ ~mm.isAccelerating)

\* C29: after the last smooth drive command on a channel, whatever ramp was
\* in progress and whatever the channel's power was, the polls eventually
\* bring the channel to the commanded direction and power.
C29_LastCommandWins ==
    (lastCmd.op = "loop" /\ lastCmd.scenario = "last" /\ lastCmd.final)
        ~> (Left.direction = lastCmd.dir /\ Left.power = lastCmd.power)

\* ------------------------------------------- state machine: wraparound runs
\* The board has been up for a while when the run starts; then one smooth
\* drive command from rest, polls, sends and clock advances that carry the
\* counter past 2^ClockBits.  lastCmd keeps the real milliseconds since
\* _lastSendTime (sinceSend) and, while a ramp is in progress, since
\* _lastAccelUpdateTime (sinceStep) were recorded.
Elapsed(sinceSend, sinceStep) ==
    [sinceSend |-> sinceSend, sinceStep |-> sinceStep] @@ [NoCmd EXCEPT !.op = "clock"]

WrapIdle ==
    \E d \in WrapIdles :
        /\ lastCmd = NoCmd
        /\ now' = (now + d) % ClockMod
        /\ lastCmd' = Elapsed(d, 0)
        /\ UNCHANGED <<mm, tel, ut, serial, duePoll>>

WrapDrive ==
    /\ lastCmd.op = "clock"
    /\ ~mm.isAccelerating /\ mm.leftMotor.direction = MOTOR_STOPPED
    /\ Commit(leftForward(Sys, WrapPower, TRUE, now))
    /\ lastCmd' = Elapsed(lastCmd.sinceSend, 0)
    /\ UNCHANGED <<serial, now, duePoll>>

WrapPoll ==
    /\ lastCmd.op = "clock"
    /\ Commit(updateAcceleration(Sys, now))
    /\ lastCmd' =
          Elapsed(lastCmd.sinceSend,
                  IF updateAcceleration(Sys, now).mm.currentAccelStep # mm.currentAccelStep
                  THEN 0 ELSE lastCmd.sinceStep)
    /\ UNCHANGED <<serial, now, duePoll>>

WrapSend ==
    /\ lastCmd.op = "clock"
    /\ SendGate(tel, now) => serial.count < MaxRecords
    /\ tel' = Telemetry_send(tel, serial, now).tel
    /\ serial' = Telemetry_send(tel, serial, now).serial
    /\ lastCmd' =
          Elapsed(IF Telemetry_send(tel, serial, now).serial # serial
                  THEN 0 ELSE lastCmd.sinceSend,
                  lastCmd.sinceStep)
    /\ UNCHANGED <<mm, ut, now, duePoll>>

WrapTick ==
    \E d \in WrapTickSteps :
        /\ lastCmd.op = "clock"
        /\ lastCmd.sinceSend + d <= MaxWrapElapsed
        /\ mm.isAccelerating => (d <= MaxIdle /\ lastCmd.sinceStep < MaxIdle)
        /\ now' = (now + d) % ClockMod
        /\ lastCmd' = Elapsed(lastCmd.sinceSend + d,
                              IF mm.isAccelerating THEN lastCmd.sinceStep + d ELSE 0)
        /\ UNCHANGED <<mm, tel, ut, serial, duePoll>>

NextWrap == WrapIdle \/ WrapDrive \/ WrapPoll \/ WrapSend \/ WrapTick

SpecWrap == Init /\ [][NextWrap]_vars

\* ----------------------------------------------------- claims: wraparound
\* C19: with the counter wrapping modulo 2^ClockBits, a poll made e real
\* milliseconds (e < 2^ClockBits) after the recorded timestamp advances the
\* ramp exactly when e >= the inter-step delay, and a send made e real
\* milliseconds after the last record passes the gate exactly when
\* e >= interval, also when the counter wrapped in between.
\* (A poll or send whose gate stays shut is a stuttering step, so the gates
\* are stated of every reachable state: what a poll or send made there does.)
C19_ClockWraparound ==
    lastCmd.op = "clock" =>
        /\ lastCmd.sinceStep < ClockMod /\ lastCmd.sinceSend < ClockMod
        /\ (mm.isAccelerating /\ mm.smoothEnabled) =>
              ((updateAcceleration(Sys, now).mm.currentAccelStep # mm.currentAccelStep)
                  <=> (lastCmd.sinceStep >= SMOOTH_ACCEL_DELAY))
        /\ (tel.enabled /\ tel.dataChanged) =>
              ((Telemetry_send(tel, serial, now).serial # serial)
                  <=> (lastCmd.sinceSend >= tel.interval))

\* The counter has wrapped: a ramp step and a telemetry record carry
\* timestamps just after 0, their predecessors' were just before 2^ClockBits.
C19_Witness ==
    /\ lastCmd.op = "clock"
    /\ mm.currentAccelStep >= 2 /\ mm.lastAccelUpdateTime < SMOOTH_ACCEL_DELAY
    /\ serial.count >= 2 /\ tel.lastSendTime < DEFAULT_TELEMETRY_INTERVAL

\* ------------------------------------------- state machine: telemetry alone
\* Telemetry::update, send and setInterval called in any order from the
\* power-on state; lastCmd holds the arguments of the last update call.
UpdateInputs ==
    {[leftMotorPower |-> p, rightMotorPower |-> 0,
      leftMotorForward |-> FALSE, rightMotorForward |-> FALSE,
      leftCalibration |-> F32One, rightCalibration |-> F32One,
      isAccelerating |-> a, smoothEnabled |-> TRUE] :
        p \in UpdatePowers, a \in BOOLEAN}

TelUpdate ==
    \E f \in UpdateInputs :
        /\ tel' = Telemetry_update(tel, f, now)
        /\ lastCmd' = [op |-> "update", fields |-> f,
                        suppressed |-> (f = Mirrored(tel.data))]
        /\ UNCHANGED <<mm, ut, serial, now, duePoll>>

TelSend ==
    /\ SendGate(tel, now) => serial.count < MaxRecords
    /\ tel' = Telemetry_send(tel, serial, now).tel
    /\ serial' = Telemetry_send(tel, serial, now).serial
    /\ UNCHANGED <<mm, ut, now, lastCmd, duePoll>>

TelSetInterval ==
    \E interval \in Intervals :
        /\ tel' = Telemetry_setInterval(tel, interval)
        /\ UNCHANGED <<mm, ut, serial, now, lastCmd, duePoll>>

TelTick ==
    \E d \in TelTickSteps :
        /\ now + d <= MaxTelTime
        /\ now' = (now + d) % ClockMod
        /\ UNCHANGED <<mm, tel, ut, serial, lastCmd, duePoll>>

NextTelemetry == TelUpdate \/ TelSend \/ TelSetInterval \/ TelTick

SpecTelemetry == Init /\ [][NextTelemetry]_vars

\* ---------------------------------------------------- claims: telemetry
\* Milliseconds since the last publish (the runs end before the counter wraps).
SinceLastSend == now - tel.lastSendTime

\* C9: a changed snapshot waits while fewer than interval ms have passed
\* since the last publish: a send() then emits nothing; a send() at or after
\* the interval emits exactly one record, carrying the snapshot as the last
\* update left it; and a send() with nothing changed since emits nothing.
\* (A send that emits nothing is a stuttering step, so that a due send does
\* emit is also stated of every reachable state.)
C9_DualGatingOverTime ==
    /\ []((tel.dataChanged /\ SinceLastSend >= tel.interval) =>
            /\ Telemetry_send(tel, serial, now).serial.count = serial.count + 1
            /\ Telemetry_send(tel, serial, now).serial.last = tel.data)
    /\ [][TelSend =>
          /\ (tel.dataChanged /\ SinceLastSend < tel.interval)
                => (serial' = serial /\ tel'.dataChanged)
          /\ (tel.dataChanged /\ SinceLastSend >= tel.interval)
                => /\ serial'.count = serial.count + 1
                   /\ serial'.last = tel.data
                   /\ lastCmd.op = "update"
                         => Mirrored(serial'.last) = lastCmd.fields
          /\ ~tel.dataChanged => serial' = serial]_vars

\* A snapshot that changed 500 ms after the last publish, under an interval
\* of 1000 ms, went out as the first record at 1000 ms.
C9_Witness ==
    /\ serial.count = 1 /\ serial.last.timestamp = 500
    /\ tel.interval = 1000 /\ tel.lastSendTime = 1000 /\ ~tel.dataChanged
    /\ lastCmd.op = "update" /\ Mirrored(serial.last) = lastCmd.fields

\* C10: send() emits a record if and only if telemetry is enabled, at least
\* interval ms have passed since lastSendTime and the dirty flag is set; when
\* it emits it clears the dirty flag and sets lastSendTime to now; otherwise
\* it emits nothing and leaves snapshot, dirty flag and lastSendTime alone.
\* (A send that emits nothing is a stuttering step, so "if and only if" is
\* also stated of every reachable state: what a send made there does.)
C10_SendGateAndEffect ==
    /\ []((Telemetry_send(tel, serial, now).serial # serial)
            <=> (tel.enabled /\ SinceLastSend >= tel.interval /\ tel.dataChanged))
    /\ [][TelSend =>
          LET gate == tel.enabled /\ SinceLastSend >= tel.interval /\ tel.dataChanged
              emits == serial' # serial
          IN /\ emits <=> gate
             /\ emits => /\ serial'.count = serial.count + 1
                         /\ ~tel'.dataChanged
                         /\ tel'.lastSendTime = now
                         /\ tel'.data = tel.data
             /\ ~emits => tel' = tel]_vars

\* A record has gone out: flag cleared, lastSendTime at the time of the send.
C10_Witness ==
    /\ serial.count >= 1 /\ ~tel.dataChanged
    /\ tel.lastSendTime = now /\ now >= tel.interval

\* C11: update() called with fields equal to the snapshot's mirrored fields
\* changes nothing (snapshot, timestamp, dirty flag); so the second of two
\* update calls with identical fields does not raise the dirty flag.
C11_UpdateSuppression ==
    [][/\ (TelUpdate /\ lastCmd'.fields = Mirrored(tel.data)) => tel' = tel
       /\ (TelUpdate /\ lastCmd.op = "update" /\ lastCmd'.fields = lastCmd.fields)
             => tel' = tel]_vars

\* The last update() repeated the snapshot, after a send had cleared the
\* dirty flag: the flag is still clear and the timestamp is an earlier one.
C11_Witness ==
    /\ lastCmd.op = "update" /\ lastCmd.suppressed
    /\ ~tel.dataChanged /\ serial.count >= 1
    /\ tel.data.timestamp < tel.lastSendTime

\* C31: once a record has been emitted, the dirty flag is set only if the
\* snapshot's mirrored fields differ from those of the last emitted record
\* (so that two records emitted one after the other never carry the same
\* mirrored fields).
C31_DirtyMeansDifferent ==
    (serial.count >= 1 /\ tel.dataChanged)
        => Mirrored(tel.data) # Mirrored(serial.last)

\* C32: setInterval changes the interval alone (snapshot, dirty flag and
\* lastSendTime as they were, nothing emitted); lastSendTime is the time of
\* Telemetry::begin until the first record and the time of the last
\* emission afterwards; and a record is emitted only when at least the
\* interval then in force has passed since lastSendTime.
C32_MinimumPublishSpacing ==
    /\ [](serial.count = 0 => tel.lastSendTime = 0)
    /\ [][/\ TelSetInterval =>
              /\ tel'.data = tel.data /\ tel'.dataChanged = tel.dataChanged
              /\ tel'.lastSendTime = tel.lastSendTime
              /\ tel'.enabled = tel.enabled /\ serial' = serial
          /\ serial' # serial =>
              /\ serial'.count = serial.count + 1
              /\ SinceLastSend >= tel.interval
              /\ tel'.lastSendTime = now
          /\ serial' = serial => tel'.lastSendTime = tel.lastSendTime]_vars

\* Two records are out, the second one 500 ms after the first at the
\* earliest, under an interval set to 500 ms.
C32_Witness ==
    /\ serial.count = 2 /\ tel.interval = 500
    /\ tel.lastSendTime = 1500 /\ now = 1500 /\ ~tel.dataChanged

\* -------------------------------------------------------- NonBlockingDelay
\* A timer is T = [startTime, delayTime, running]; t is millis().
NonBlockingDelay(delayTime) ==
    [startTime |-> 0, delayTime |-> delayTime, running |-> FALSE]

NonBlockingDelay_start(T, delayTime, t) ==
    [startTime |-> t,
     delayTime |-> IF delayTime > 0 THEN delayTime ELSE T.delayTime,
     running |-> TRUE]

\* (mutant) elapsed() that leaves the timer running when the time is up.
NonBlockingDelay_elapsedKeepsRunning(T, t) ==
    IF ~T.running THEN [timer |-> T, ret |-> TRUE]
    ELSE IF USub(t, T.startTime) >= T.delayTime
    THEN [timer |-> T, ret |-> TRUE]
    ELSE [timer |-> T, ret |-> FALSE]

\* elapsed(): the timer after the call and the value returned.
NonBlockingDelay_elapsed(T, t) ==
    IF ~T.running THEN [timer |-> T, ret |-> TRUE]
    ELSE IF USub(t, T.startTime) >= T.delayTime
    THEN [timer |-> [T EXCEPT !.running = FALSE], ret |-> TRUE]
    ELSE [timer |-> T, ret |-> FALSE]

NonBlockingDelay_reset(T, t) == [T EXCEPT !.startTime = t, !.running = TRUE]

NonBlockingDelay_remaining(T, t) ==
    IF ~T.running THEN 0
    ELSE LET elapsedTime == USub(t, T.startTime)
         IN IF elapsedTime >= T.delayTime THEN 0
            ELSE T.delayTime - elapsedTime

\* ------------------------------------------------ state machine: the timer
\* One NonBlockingDelay object: constructed, then start(), reset() and
\* elapsed() called in any order while the clock advances and wraps.
\* lastCmd holds the object (timer) and its history: the call that armed it
\* last (armed: "new" before any, "start" for start(d) with d > 0, "start0"
\* for start() with the default argument, "reset"), the delay d that call
\* gave, the real milliseconds since that call (since), and whether
\* elapsed() has returned true since that call (fired).
TimerState(T, armed, d, since, fired) ==
    [op |-> "timer", timer |-> T, armed |-> armed, d |-> d,
     since |-> since, fired |-> fired]

TimerNew ==
    \E d \in TimerDelays :
        /\ lastCmd = NoCmd
        /\ lastCmd' = TimerState(NonBlockingDelay(d), "new", 0, 0, FALSE)
        /\ UNCHANGED <<mm, tel, ut, serial, now, duePoll>>

TimerStart ==
    \E d \in TimerDelays :
        /\ lastCmd.op = "timer"
        /\ lastCmd' = TimerState(NonBlockingDelay_start(lastCmd.timer, d, now),
                                  IF d > 0 THEN "start" ELSE "start0",
                                  d, 0, FALSE)
        /\ UNCHANGED <<mm, tel, ut, serial, now, duePoll>>

TimerReset ==
    /\ lastCmd.op = "timer"
    /\ lastCmd' = TimerState(NonBlockingDelay_reset(lastCmd.timer, now),
                              "reset", 0, 0, FALSE)
    /\ UNCHANGED <<mm, tel, ut, serial, now, duePoll>>

TimerElapsed ==
    /\ lastCmd.op = "timer"
    /\ lastCmd' = [lastCmd EXCEPT
                      !.timer = NonBlockingDelay_elapsed(lastCmd.timer, now).timer,
                      !.fired = lastCmd.fired
                                \/ NonBlockingDelay_elapsed(lastCmd.timer, now).ret]
    /\ UNCHANGED <<mm, tel, ut, serial, now, duePoll>>

TimerTick ==
    \E d \in TimerTickSteps :
        /\ lastCmd.op = "timer"
        /\ lastCmd.since + d <= ClockMod + TimerSlack
        /\ now' = (now + d) % ClockMod
        /\ lastCmd' = [lastCmd EXCEPT
                          !.since = IF lastCmd.armed = "new" THEN 0
                                    ELSE lastCmd.since + d]
        /\ UNCHANGED <<mm, tel, ut, serial, duePoll>>

NextTimer == TimerNew \/ TimerStart \/ TimerReset \/ TimerElapsed \/ TimerTick

SpecTimer == Init /\ [][NextTimer]_vars

\* ------------------------------------------------------ claims: the timer
\* What elapsed() and remaining() return when called in this state.
ElapsedNow == NonBlockingDelay_elapsed(lastCmd.timer, now).ret
RemainingNow == NonBlockingDelay_remaining(lastCmd.timer, now)

\* The parts of C33 that do not depend on how long ago the timer was
\* started: a timer never started has elapsed; remaining() never exceeds the
\* delay and is 0 whenever elapsed() would return true.
TimerFrame ==
    /\ lastCmd.armed = "new" => ElapsedNow
    /\ RemainingNow <= lastCmd.timer.delayTime
    /\ ElapsedNow => RemainingNow = 0

\* C33 as stated: after start(d), d > 0, a call of elapsed() made fewer
\* than d ms after the start returns false and a call made d ms or more
\* after it returns true, however long after the start the first such
\* call is made; with TimerFrame.
C33_TimerAsStated ==
    lastCmd.op = "timer" =>
        /\ TimerFrame
        /\ lastCmd.armed = "start" => (ElapsedNow <=> lastCmd.since >= lastCmd.d)

\* C33, amended: the same, for calls made before the counter has come
\* round since the start (fewer than 2^ClockBits ms after it), and for
\* every later call once elapsed() has returned true.
C33_NonBlockingTimer ==
    lastCmd.op = "timer" =>
        /\ TimerFrame
        /\ (lastCmd.armed = "start"
            /\ (lastCmd.since < ClockMod \/ lastCmd.fired)) =>
               (ElapsedNow <=> lastCmd.since >= lastCmd.d)

\* elapsed() returned true after start(300), and the counter has come
\* round since the start: elapsed() still returns true.
C33_Witness ==
    /\ lastCmd.op = "timer" /\ lastCmd.armed = "start" /\ lastCmd.d = 300
    /\ lastCmd.fired /\ lastCmd.since >= ClockMod
    /\ USub(now, lastCmd.timer.startTime) < lastCmd.d
    /\ ElapsedNow

\* ------------------------------------------------------------------ Logger
\* The statics of class Logger as first initialized.
Logger == [level |-> DEBUG_BASIC, enabled |-> TRUE]

Logger_setLevel(L, level) == [L EXCEPT !.level = level]

Logger_setEnabled(L, enabled) ==
    IF ~enabled THEN [level |-> DEBUG_NONE, enabled |-> enabled]
    ELSE [L EXCEPT !.enabled = enabled]

\* Logger::log(level, ...) prints its message.
Logger_log(L, level) == L.enabled /\ level <= L.level

\* Logger::logMotor(...) prints its message.
Logger_logMotor(L) == L.enabled /\ L.level >= DEBUG_BASIC

\* -------------------------------------------------------- ControllerHandler
\* The handler's operations act on H: the engine S = [mm, tel, ut], the
\* handler's _lastButtonPressTime, the Logger statics, the three debug
\* flags, the stored preferences, and the history of the button actions
\* (processed: those of the current call; lastPress, prevPress: the times of
\* the last two; beforeMute, unmuted: the Logger statics when setEnabled(false)
\* was called, and that setEnabled(true) was the next Logger setter).
NoPress == 0 - 1

\* A gamepad as read in one call: the two Y axes, the D-pad, and the
\* buttons held.
Pad(axisY, axisRY, dpad, held) ==
    [axisY |-> axisY, axisRY |-> axisRY, dpad |-> dpad, held |-> held]

NoController == [none |-> TRUE]

\* map(x, 0, AXIS_MAX, 0, 255) of Arduino (long arithmetic).
MapPower(x) == (x * 255) \div AXIS_MAX

\* (mutant) a debounce test that passes at DEBOUNCE_DELAY already.
canProcessButtonAtDelay(H, t) ==
    USub(t, H.lastButtonPressTime) >= DEBOUNCE_DELAY

canProcessButton(H, t) ==
    USub(t, H.lastButtonPressTime) > DEBOUNCE_DELAY

\* _lastButtonPressTime = millis() at the end of a button's branch (with
\* the history of the action).
Pressed(H, button, t) ==
    [H EXCEPT !.lastButtonPressTime = t,
              !.processed = Append(@, button),
              !.prevPress = H.lastPress,
              !.lastPress = t]

\* One stick of handleMovement: the dead zone, the power mapped from the
\* deflection, and the channel's command by the sign of y.
leftStick(S, y, t) ==
    IF Abs(y) < JOYSTICK_DEAD_ZONE THEN leftStop(S, t)
    ELSE IF y > 0 THEN leftForward(S, U8(MapPower(Abs(y))), TRUE, t)
    ELSE leftBackward(S, U8(MapPower(Abs(y))), TRUE, t)

rightStick(S, y, t) ==
    IF Abs(y) < JOYSTICK_DEAD_ZONE THEN rightStop(S, t)
    ELSE IF y > 0 THEN rightForward(S, U8(MapPower(Abs(y))), TRUE, t)
    ELSE rightBackward(S, U8(MapPower(Abs(y))), TRUE, t)

handleMovement(H, c, t) ==
    [H EXCEPT !.S = rightStick(leftStick(H.S, c.axisY, t), c.axisRY, t)]

\* One branch of handleCalibrationButtons: the channel's calibration moved
\* by step, clamped, set and stored.
Stored(H, side, newCalibration, button, t) ==
    Pressed([H EXCEPT !.S = IF side = "left"
                            THEN setLeftCalibration(H.S, newCalibration, t)
                            ELSE setRightCalibration(H.S, newCalibration, t),
                      !.prefs[side] = newCalibration], button, t)

Calibrate(H, side, step, button, t) ==
    Stored(H, side, Constrain01(F32Add(GetMotor(H.S, side).calibration, step)),
           button, t)

handleCalibrationButtons(H, c, t) ==
    IF ~canProcessButton(H, t) THEN H
    ELSE IF "a" \in c.held
    THEN Calibrate(H, "right", F32Neg(CALIBRATION_STEP), "a", t)
    ELSE IF "y" \in c.held
    THEN Calibrate(H, "right", CALIBRATION_STEP, "y", t)
    ELSE IF c.dpad = "UP"
    THEN Calibrate(H, "left", CALIBRATION_STEP, "dpadUp", t)
    ELSE IF c.dpad = "DOWN"
    THEN Calibrate(H, "left", F32Neg(CALIBRATION_STEP), "dpadDown", t)
    ELSE H

handleDebugButtons(H, c, t) ==
    IF ~canProcessButton(H, t) THEN H
    ELSE IF {"l1", "r1"} \subseteq c.held
    THEN Pressed([H EXCEPT !.logger = Logger_setLevel(@, (H.logger.level + 1) % 4),
                           !.unmuted = FALSE], "l1r1", t)
    ELSE IF {"l2", "r2"} \subseteq c.held
    THEN Pressed([H EXCEPT !.logger = Logger_setEnabled(@, ~H.logger.enabled),
                           !.beforeMute = IF H.logger.enabled THEN H.logger ELSE @,
                           !.unmuted = ~H.logger.enabled], "l2r2", t)
    ELSE IF "x" \in c.held
    THEN Pressed([H EXCEPT !.enableControllerDebug = ~@], "x", t)
    ELSE IF "b" \in c.held
    THEN Pressed([H EXCEPT !.enableAccelerometerDebug = ~@,
                           !.enableGyroscopeDebug = ~@], "b", t)
    ELSE H

\* The three handlers in the order of the calls, each on the state the one
\* before left (the singleton sets bind each intermediate state once).
processController(H, c, t) ==
    IF c = NoController THEN H
    ELSE CHOOSE H3 \in
             {handleDebugButtons(H2, c, t) :
                 H2 \in {handleCalibrationButtons(H1, c, t) :
                     H1 \in {handleMovement([H EXCEPT !.processed = <<>>], c, t)}}} : TRUE

\* ------------------------------------------- state machine: controller runs
\* processController called with any of the gamepads below while the clock
\* advances, from the power-on state.
ControllerInputs ==
    {NoController,
     Pad(0, 0, "NONE", {}),
     Pad(AXIS_MAX, 0, "NONE", {"a"}),
     Pad(0, JOYSTICK_DEAD_ZONE - 1, "UP", {"y", "x"}),
     Pad(0, 0, "DOWN", {"l1", "r1"}),
     Pad(0, 0, "NONE", {"l2", "r2", "b"}),
     Pad(0, 0, "NONE", {"l1", "r1", "x"}),
     Pad(0, 0, "NONE", {"x"}),
     Pad(0, 0, "NONE", {"b", "l1"})}

\* The statics of ControllerHandler and Logger and the debug flags as first
\* initialized, nothing stored, no button action yet.
Handler0 ==
    [op |-> "controller", lastButtonPressTime |-> 0, logger |-> Logger,
     enableControllerDebug |-> FALSE, enableAccelerometerDebug |-> FALSE,
     enableGyroscopeDebug |-> FALSE,
     prefs |-> [left |-> F32One, right |-> F32One],
     processed |-> <<>>, lastPress |-> NoPress, prevPress |-> NoPress,
     beforeMute |-> Logger, unmuted |-> FALSE]

CtlBegin ==
    /\ lastCmd = NoCmd
    /\ lastCmd' = Handler0
    /\ UNCHANGED <<mm, tel, ut, serial, now, duePoll>>

ProcessController ==
    \E c \in ControllerInputs :
        /\ lastCmd.op = "controller"
        /\ \E H \in {processController([S |-> Sys] @@ lastCmd, c, now)} :
               /\ Commit(H.S)
               /\ lastCmd' = [f \in DOMAIN lastCmd |-> H[f]]
        /\ UNCHANGED <<serial, now, duePoll>>

CtlTick ==
    \E d \in CtlTickSteps :
        /\ lastCmd.op = "controller"
        /\ now + d <= MaxCtlTime
        /\ now' = (now + d) % ClockMod
        /\ UNCHANGED <<mm, tel, ut, serial, lastCmd, duePoll>>

NextController == CtlBegin \/ ProcessController \/ CtlTick

SpecController == Init /\ [][NextController]_vars

\* ------------------------------------------------- claims: the controller
\* C34: any two processed button actions (calibration or debug) are more
\* than DEBOUNCE_DELAY ms apart, and one processController call processes
\* at most one button action, also when several buttons are held.
C34_ButtonDebounce ==
    lastCmd.op = "controller" =>
        /\ Len(lastCmd.processed) <= 1
        /\ lastCmd.prevPress # NoPress =>
              lastCmd.lastPress - lastCmd.prevPress > DEBOUNCE_DELAY

\* D-pad DOWN, which these runs read only with L1+R1 held as well, was
\* processed alone, DEBOUNCE_DELAY + 1 ms after the button action before.
C34_Witness ==
    /\ lastCmd.op = "controller"
    /\ lastCmd.processed = <<"dpadDown">>
    /\ lastCmd.prevPress # NoPress
    /\ lastCmd.lastPress - lastCmd.prevPress = DEBOUNCE_DELAY + 1
    /\ lastCmd.logger = Logger

\* C35: after setEnabled(false) followed by setEnabled(true), with no
\* setLevel call in between or after, every message Logger::log or
\* Logger::logMotor printed before the mute is printed again.
C35_LoggerMuteRoundTrip ==
    (lastCmd.op = "controller" /\ lastCmd.unmuted) =>
        /\ \A level \in DEBUG_NONE..DEBUG_VERBOSE :
              Logger_log(lastCmd.beforeMute, level)
                  => Logger_log(lastCmd.logger, level)
        /\ Logger_logMotor(lastCmd.beforeMute) => Logger_logMotor(lastCmd.logger)

====
